---- MODULE Spec2Model ----
(***************************************************************************)
(* The Flask gateway of app.py: the module-level retrieval handle qa built *)
(* once by load_db(), and the three POST routes /kbanswer, /search and      *)
(* /answer with the wrapper functions they call.  Requests are handled      *)
(* concurrently by the web server; a handler blocks at its one external     *)
(* call (the retrieval chain or the hosted language model), which either    *)
(* returns or raises.                                                       *)
(*                                                                         *)
(* A text is a sequence of fragments (strings); concatenation of texts is   *)
(* concatenation of sequences.  Whitespace characters are fragments of     *)
(* their own, so that str.strip() is computed on them.                      *)
(***************************************************************************)
EXTENDS Integers, Sequences, FiniteSets, TLC

VARIABLES
    phase,      \* "boot" while the module is being imported, then "serving"
    environ,    \* os.environ's COHERE_API_KEY: NoKey (unset), "" or a key
    qa,         \* the module global qa: Unbound, None or Chain
    request,    \* request[r]: the path and JSON body of request r
    pc,         \* pc[r]: "idle", "qa_call", "llm_call" or "done"
    invoked,    \* invoked[r]: the wrapper function the route called, or ""
    llm,        \* llm[r]: whether a Cohere llm object was built for r
    memory,     \* memory[r]: the local ConversationBufferMemory of r
    calls,      \* calls[r]: the external calls made for r
    ext,        \* ext[r]: what the external call of r returned or raised
    response,   \* response[r]: the HTTP response of r
    log         \* log[r]: what was printed for r (log[0]: by load_db)

vars ==
    <<phase, environ, qa, request, pc, invoked, llm, memory, calls, ext,
      response, log>>

----------------------------------------------------------------------------
(* Bounds and input domains *)

MaxReq ==
    2

MaxDocs ==
    2

MaxLen ==
    2

Reqs ==
    1..MaxReq

NoKey ==
    "<unset>"

EnvValues ==
    {NoKey, "", "k3y"}

Unbound ==
    "<unbound>"

None ==
    "None"

Chain ==
    "RetrievalQA"

Messages ==
    {"What is the refund policy?", "hello"}

\* JSON bodies: {} and {"message": m}
Bodies ==
    {[hasMessage |-> FALSE, message |-> ""]}
        \cup {[hasMessage |-> TRUE, message |-> m] : m \in Messages}

\* exceptions an external call can raise, by their text
Excs ==
    {"CohereAPIError: invalid api token", "ConnectionError: timed out"}

\* result texts of the retrieval chain
Results ==
    {<<"Refunds are processed within 14 days.">>, <<"r2">>}

\* generated texts of the language model
Replies ==
    {<<"Hi there!">>, <<"g2">>}

Whitespace ==
    {" ", "\t", "\n", "\r", "\f"}

Alphabet ==
    {"a", " ", "\n"}

Texts(n) ==
    UNION {[1..k -> Alphabet] : k \in 0..n}

Document(text) ==
    [page_content |-> text]

\* every list of at most MaxDocs documents with texts of at most MaxLen characters
DocLists ==
    UNION {[1..k -> {Document(t) : t \in Texts(MaxLen)}] : k \in 0..MaxDocs}

\* the source_documents the retrieval chain returns in the gateway runs
SampleDocLists ==
    { <<>>,
      <<Document(<<"a">>)>>,
      <<Document(<<"a", " ">>), Document(<<>>)>> }

----------------------------------------------------------------------------
(* Fixed texts and pure functions *)

UnavailableMsg ==
    <<"Sorry, the knowledge base is not available at the moment. Please try again later.">>

ProcessingErrorMsg ==
    <<"An error occurred while processing your request. Please try again.">>

SearchErrorMsg ==
    <<"An error occurred while searching the knowledge base. Please try again.">>

NoRequest ==
    [path |-> "", hasMessage |-> FALSE, message |-> ""]

NoResponse ==
    [status |-> 0, hasMessage |-> FALSE, message |-> <<>>]

NoExt ==
    [outcome |-> "none", result |-> <<>>, docs |-> <<>>, exc |-> ""]

NoCalls ==
    [qa |-> <<>>, llm |-> <<>>]

\* jsonify({'message': text}), 200
jsonify(text) ==
    [status |-> 200, hasMessage |-> TRUE, message |-> text]

\* Flask's answer to an exception that leaves the view function
InternalServerError ==
    [status |-> 500, hasMessage |-> FALSE, message |-> <<>>]

RECURSIVE lstrip(_)
lstrip(s) ==
    IF s = <<>> THEN s
    ELSE IF Head(s) \in Whitespace THEN lstrip(Tail(s)) ELSE s

RECURSIVE rstrip(_)
rstrip(s) ==
    IF s = <<>> THEN s
    ELSE IF s[Len(s)] \in Whitespace THEN rstrip(SubSeq(s, 1, Len(s) - 1)) ELSE s

strip(s) ==
    rstrip(lstrip(s))

\* enumerate(..., 1)
EnumerateStart ==
    1

\* the loop of search_knowledgebase over the documents left, count being the
\* number of the next one and sources the string built so far
RECURSIVE sources_loop(_, _, _)
sources_loop(docs, count, sources) ==
    IF docs = <<>> THEN sources
    ELSE sources_loop(Tail(docs), count + 1,
                      sources \o <<"Source", " ", ToString(count), "\n">>
                              \o Head(docs).page_content \o <<"\n">>)

format_sources_nostrip(docs) ==
    sources_loop(docs, EnumerateStart, <<>>)

format_sources(docs) ==
    strip(sources_loop(docs, EnumerateStart, <<>>))

\* `not cohere_api_key` for the value os.getenv returns
credential_missing_none_only(value) ==
    value = NoKey

credential_missing(value) ==
    value \in {NoKey, ""}

\* ConversationBufferMemory(...): the buffer request r starts with
ConversationBufferMemory_shared(r) ==
    IF \E o \in Reqs \ {r} : memory[o] # <<>>
    THEN memory[CHOOSE o \in Reqs \ {r} : memory[o] # <<>>]
    ELSE <<>>

ConversationBufferMemory(r) ==
    <<>>

\* the variables the prompt template is filled with
prompt_inputs(history, message) ==
    [chat_history |-> history, human_input |-> message]

----------------------------------------------------------------------------
(* Start-up *)

Init ==
    /\ phase = "boot"
    /\ environ \in EnvValues
    /\ qa = Unbound
    /\ request = [r \in Reqs |-> NoRequest]
    /\ pc = [r \in Reqs |-> "idle"]
    /\ invoked = [r \in Reqs |-> ""]
    /\ llm = [r \in Reqs |-> FALSE]
    /\ memory = [r \in Reqs |-> <<>>]
    /\ calls = [r \in Reqs |-> NoCalls]
    /\ ext = [r \in Reqs |-> NoExt]
    /\ response = [r \in Reqs |-> NoResponse]
    /\ log = [r \in 0..MaxReq |-> <<>>]

\* qa = load_db(): os.environ[...] raises KeyError when the variable is unset;
\* the constructors after it either succeed or raise
load_db ==
    /\ phase = "boot"
    /\ phase' = "serving"
    /\ \/ /\ environ = NoKey
          /\ qa' = None
          /\ log' = [log EXCEPT ![0] = <<"Error:", "KeyError: 'COHERE_API_KEY'">>]
       \/ /\ environ # NoKey
          /\ \E e \in Excs :
                /\ qa' = None
                /\ log' = [log EXCEPT ![0] = <<"Error:", e>>]
       \/ /\ environ # NoKey
          /\ qa' = Chain
          /\ log' = log
    /\ UNCHANGED <<environ, request, pc, invoked, llm, memory, calls, ext, response>>

----------------------------------------------------------------------------
(* Requests *)

\* request.json['message'] on a body without the key: KeyError leaves the view
missing_message(r, path) ==
    /\ request' = [request EXCEPT ![r] = [path |-> path, hasMessage |-> FALSE, message |-> ""]]
    /\ pc' = [pc EXCEPT ![r] = "done"]
    /\ response' = [response EXCEPT ![r] = InternalServerError]
    /\ log' = [log EXCEPT ![r] = <<"Exception on " \o path \o " [POST]", "KeyError: 'message'">>]
    /\ UNCHANGED <<phase, environ, qa, invoked, llm, memory, calls, ext>>

\* a wrapper returns text without an external call
respond_now(r, path, body, fn, text, printed) ==
    /\ request' = [request EXCEPT ![r] = [path |-> path, hasMessage |-> TRUE, message |-> body.message]]
    /\ invoked' = [invoked EXCEPT ![r] = fn]
    /\ pc' = [pc EXCEPT ![r] = "done"]
    /\ response' = [response EXCEPT ![r] = jsonify(text)]
    /\ log' = [log EXCEPT ![r] = printed]
    /\ UNCHANGED <<phase, environ, qa, llm, memory, calls, ext>>

\* a wrapper calls qa({"query": message}) and waits
call_qa(r, path, body, fn) ==
    /\ request' = [request EXCEPT ![r] = [path |-> path, hasMessage |-> TRUE, message |-> body.message]]
    /\ invoked' = [invoked EXCEPT ![r] = fn]
    /\ calls' = [calls EXCEPT ![r].qa = Append(@, [query |-> body.message])]
    /\ pc' = [pc EXCEPT ![r] = "qa_call"]
    /\ UNCHANGED <<phase, environ, qa, llm, memory, ext, response, log>>

\* the blocked external call of r raises e, which the wrapper's except clause
\* prints and turns into text
except_clause(r, e, fn, text) ==
    /\ ext' = [ext EXCEPT ![r] = [NoExt EXCEPT !.outcome = "raised", !.exc = e]]
    /\ log' = [log EXCEPT ![r] = <<"Error in " \o fn \o ":", e>>]
    /\ response' = [response EXCEPT ![r] = jsonify(text)]
    /\ pc' = [pc EXCEPT ![r] = "done"]
    /\ UNCHANGED <<phase, environ, qa, request, invoked, llm, memory, calls>>

\* POST /kbanswer up to the call of the retrieval chain
kbanswer_nocheck(r, body) ==
    /\ phase = "serving" /\ pc[r] = "idle"
    /\ IF ~body.hasMessage THEN missing_message(r, "/kbanswer")
       ELSE call_qa(r, "/kbanswer", body, "answer_from_knowledgebase")

kbanswer(r, body) ==
    /\ phase = "serving" /\ pc[r] = "idle"
    /\ IF ~body.hasMessage THEN missing_message(r, "/kbanswer")
       ELSE IF qa = None
            THEN respond_now(r, "/kbanswer", body, "answer_from_knowledgebase",
                             UnavailableMsg, <<>>)
            ELSE call_qa(r, "/kbanswer", body, "answer_from_knowledgebase")

\* res = qa(...) returned; return res['result']
answer_from_knowledgebase_return_retry(r, res) ==
    /\ pc[r] = "qa_call" /\ request[r].path = "/kbanswer"
    /\ ext' = [ext EXCEPT ![r] = [NoExt EXCEPT !.outcome = "returned", !.result = res.result]]
    /\ calls' = [calls EXCEPT ![r].qa = Append(@, [query |-> request[r].message])]
    /\ response' = [response EXCEPT ![r] = jsonify(res.result)]
    /\ pc' = [pc EXCEPT ![r] = "done"]
    /\ UNCHANGED <<phase, environ, qa, request, invoked, llm, memory, log>>

answer_from_knowledgebase_return(r, res) ==
    /\ pc[r] = "qa_call" /\ request[r].path = "/kbanswer"
    /\ ext' = [ext EXCEPT ![r] = [NoExt EXCEPT !.outcome = "returned", !.result = res.result]]
    /\ response' = [response EXCEPT ![r] = jsonify(res.result)]
    /\ pc' = [pc EXCEPT ![r] = "done"]
    /\ UNCHANGED <<phase, environ, qa, request, invoked, llm, memory, calls, log>>

\* qa(...) raised e
answer_from_knowledgebase_except_leak(r, e) ==
    /\ pc[r] = "qa_call" /\ request[r].path = "/kbanswer"
    /\ except_clause(r, e, "answer_from_knowledgebase", <<e>>)

answer_from_knowledgebase_except_reraise(r, e) ==
    /\ pc[r] = "qa_call" /\ request[r].path = "/kbanswer"
    /\ ext' = [ext EXCEPT ![r] = [NoExt EXCEPT !.outcome = "raised", !.exc = e]]
    /\ log' = [log EXCEPT ![r] = <<"Error in answer_from_knowledgebase:", e>>]
    /\ response' = [response EXCEPT ![r] = InternalServerError]
    /\ pc' = [pc EXCEPT ![r] = "done"]
    /\ UNCHANGED <<phase, environ, qa, request, invoked, llm, memory, calls>>

answer_from_knowledgebase_except(r, e) ==
    /\ pc[r] = "qa_call" /\ request[r].path = "/kbanswer"
    /\ except_clause(r, e, "answer_from_knowledgebase", ProcessingErrorMsg)

\* POST /search up to the call of the retrieval chain
search(r, body) ==
    /\ phase = "serving" /\ pc[r] = "idle"
    /\ IF ~body.hasMessage THEN missing_message(r, "/search")
       ELSE IF qa = None
            THEN respond_now(r, "/search", body, "search_knowledgebase",
                             UnavailableMsg, <<>>)
            ELSE call_qa(r, "/search", body, "search_knowledgebase")

\* res = qa(...) returned; format res['source_documents']
search_knowledgebase_return(r, res) ==
    /\ pc[r] = "qa_call" /\ request[r].path = "/search"
    /\ ext' = [ext EXCEPT ![r] = [NoExt EXCEPT !.outcome = "returned", !.docs = res.source_documents]]
    /\ response' = [response EXCEPT ![r] = jsonify(format_sources(res.source_documents))]
    /\ pc' = [pc EXCEPT ![r] = "done"]
    /\ UNCHANGED <<phase, environ, qa, request, invoked, llm, memory, calls, log>>

\* qa(...) raised e
search_knowledgebase_except(r, e) ==
    /\ pc[r] = "qa_call" /\ request[r].path = "/search"
    /\ except_clause(r, e, "search_knowledgebase", SearchErrorMsg)

\* POST /answer up to conversation_chain.predict's call of the language model
answer(r, body) ==
    /\ phase = "serving" /\ pc[r] = "idle"
    /\ IF ~body.hasMessage THEN missing_message(r, "/answer")
       ELSE IF credential_missing(environ)
            THEN respond_now(r, "/answer", body, "answer_as_chatbot", ProcessingErrorMsg,
                             <<"Error in answer_as_chatbot:",
                               "COHERE_API_KEY environment variable not set">>)
            ELSE /\ request' = [request EXCEPT ![r] = [path |-> "/answer", hasMessage |-> TRUE, message |-> body.message]]
                 /\ invoked' = [invoked EXCEPT ![r] = "answer_as_chatbot"]
                 /\ llm' = [llm EXCEPT ![r] = TRUE]
                 /\ memory' = [memory EXCEPT ![r] = ConversationBufferMemory(r)]
                 /\ calls' = [calls EXCEPT ![r].llm =
                                Append(@, prompt_inputs(ConversationBufferMemory(r), body.message))]
                 /\ pc' = [pc EXCEPT ![r] = "llm_call"]
                 /\ UNCHANGED <<phase, environ, qa, ext, response, log>>

\* predict returned text: the chain saves the turn in its memory and returns it
answer_as_chatbot_return(r, text) ==
    /\ pc[r] = "llm_call"
    /\ ext' = [ext EXCEPT ![r] = [NoExt EXCEPT !.outcome = "returned", !.result = text]]
    /\ memory' = [memory EXCEPT ![r] = @ \o <<[human |-> request[r].message], [ai |-> text]>>]
    /\ response' = [response EXCEPT ![r] = jsonify(text)]
    /\ pc' = [pc EXCEPT ![r] = "done"]
    /\ UNCHANGED <<phase, environ, qa, request, invoked, llm, calls, log>>

\* predict raised e
answer_as_chatbot_except_drops_handle(r, e) ==
    /\ pc[r] = "llm_call"
    /\ ext' = [ext EXCEPT ![r] = [NoExt EXCEPT !.outcome = "raised", !.exc = e]]
    /\ log' = [log EXCEPT ![r] = <<"Error in answer_as_chatbot:", e>>]
    /\ response' = [response EXCEPT ![r] = jsonify(ProcessingErrorMsg)]
    /\ pc' = [pc EXCEPT ![r] = "done"]
    /\ qa' = None
    /\ UNCHANGED <<phase, environ, request, invoked, llm, memory, calls>>

answer_as_chatbot_except_leak(r, e) ==
    /\ pc[r] = "llm_call"
    /\ except_clause(r, e, "answer_as_chatbot", <<e>>)

answer_as_chatbot_except(r, e) ==
    /\ pc[r] = "llm_call"
    /\ except_clause(r, e, "answer_as_chatbot", ProcessingErrorMsg)

----------------------------------------------------------------------------
(* Specifications *)

\* what the retrieval chain can return in the gateway runs
QaReturns ==
    [result : Results, source_documents : SampleDocLists]

Next ==
    \/ load_db
    \/ \E r \in Reqs, body \in Bodies : kbanswer(r, body)
    \/ \E r \in Reqs, res \in QaReturns : answer_from_knowledgebase_return(r, res)
    \/ \E r \in Reqs, e \in Excs : answer_from_knowledgebase_except(r, e)
    \/ \E r \in Reqs, body \in Bodies : search(r, body)
    \/ \E r \in Reqs, res \in QaReturns : search_knowledgebase_return(r, res)
    \/ \E r \in Reqs, e \in Excs : search_knowledgebase_except(r, e)
    \/ \E r \in Reqs, body \in Bodies : answer(r, body)
    \/ \E r \in Reqs, text \in Replies : answer_as_chatbot_return(r, text)
    \/ \E r \in Reqs, e \in Excs : answer_as_chatbot_except(r, e)

Spec ==
    Init /\ [][Next]_vars

\* one /search request at a time, over every list of at most MaxDocs documents
\* whose texts have at most MaxLen characters
NextSearch ==
    \/ load_db
    \/ \E body \in Bodies : search(1, body)
    \/ /\ pc[1] = "qa_call"
       /\ \E docs \in DocLists :
             search_knowledgebase_return(1, [result |-> <<"r2">>, source_documents |-> docs])
    \/ \E e \in Excs : search_knowledgebase_except(1, e)

SpecSearch ==
    Init /\ [][NextSearch]_vars

----------------------------------------------------------------------------
(* Properties *)

Done(r) ==
    pc[r] = "done"

\* r carried a message field and its handler ended without a result of the
\* external call: dependency unavailable, configuration missing or call raised
Failed(r) ==
    Done(r) /\ request[r].hasMessage /\ ext[r].outcome # "returned"

Raised(r) ==
    Done(r) /\ ext[r].outcome = "raised"

KbPaths ==
    {"/kbanswer", "/search"}

Fragments(text) ==
    {text[i] : i \in 1..Len(text)}

\* C1: a request whose JSON body has no message field is answered with a 4xx
\* status, and the endpoint's wrapper function is not invoked for it.
C1_MissingMessageIsClientError ==
    \A r \in Reqs :
        (Done(r) /\ ~request[r].hasMessage) =>
            /\ response[r].status \in 400..499
            /\ invoked[r] = ""

\* C2: every request with a message field is answered with status 200 and a
\* JSON object holding a message field, whatever the handler's outcome.
C2_MessageAlways200 ==
    \A r \in Reqs :
        (Done(r) /\ request[r].hasMessage) =>
            /\ response[r].status = 200
            /\ response[r].hasMessage

C2_Witness ==
    \E r1, r2 \in Reqs :
        /\ Raised(r1) /\ request[r1].path = "/kbanswer"
        /\ Failed(r2) /\ request[r2].path = "/answer" /\ ext[r2].outcome = "none"

\* C3: while the handle is None, every /kbanswer and /search request with a
\* message gets the unavailability string with status 200, and the retrieval
\* chain is never called for it.
C3_UnavailableWhenNoHandle ==
    \A r \in Reqs :
        (qa = None /\ request[r].hasMessage /\ request[r].path \in KbPaths) =>
            /\ calls[r].qa = <<>>
            /\ pc[r] # "qa_call"
            /\ Done(r) => response[r] = jsonify(UnavailableMsg)

C3_Witness ==
    /\ qa = None
    /\ \E r1, r2 \in Reqs :
        /\ Done(r1) /\ request[r1].hasMessage /\ request[r1].path = "/kbanswer"
        /\ Done(r2) /\ request[r2].hasMessage /\ request[r2].path = "/search"

Block(k, text) ==
    <<"Source", " ", ToString(k), "\n">> \o text

\* blocks 1..n of docs, each ended by a newline
RECURSIVE BlocksUpTo(_, _)
BlocksUpTo(docs, n) ==
    IF n = 0 THEN <<>>
    ELSE BlocksUpTo(docs, n - 1) \o Block(n, docs[n].page_content) \o <<"\n">>

NoOuterWhitespace(text) ==
    text # <<>> => (text[1] \notin Whitespace /\ text[Len(text)] \notin Whitespace)

\* text without the whitespace at its end
TrimRight(text) ==
    LET keep == {i \in 1..Len(text) : text[i] \notin Whitespace}
    IN  IF keep = {} THEN <<>>
        ELSE SubSeq(text, 1, CHOOSE i \in keep : \A j \in keep : j <= i)

SearchReturned(r) ==
    Done(r) /\ request[r].path = "/search" /\ ext[r].outcome = "returned"

\* C5 as stated: the result is the N blocks "Source k" + text of document k,
\* k = 1..N, separated by newlines, and has no whitespace at either end.
C5_BlocksCarryTextsExactly ==
    \A r \in Reqs :
        SearchReturned(r) =>
            LET docs == ext[r].docs
                n == Len(docs)
                out == response[r].message
            IN  /\ NoOuterWhitespace(out)
                /\ out = IF n = 0 THEN <<>>
                         ELSE BlocksUpTo(docs, n - 1) \o Block(n, docs[n].page_content)

\* C5 amended: the result is blocks 1..N-1, each the line "Source k", the
\* text of document k and a newline, followed by the line "Source N" and the
\* text of document N without its trailing whitespace (the line "Source N"
\* alone when nothing of that text is left); it has exactly N "Source"
\* labels, is empty when N = 0, and has no whitespace at either end.
C5_BlocksWithLastTextTrimmed ==
    \A r \in Reqs :
        SearchReturned(r) =>
            LET docs == ext[r].docs
                n == Len(docs)
                out == response[r].message
            IN  /\ NoOuterWhitespace(out)
                /\ Cardinality({i \in 1..Len(out) : out[i] = "Source"}) = n
                /\ out = IF n = 0 THEN <<>>
                         ELSE LET last == TrimRight(docs[n].page_content)
                              IN  BlocksUpTo(docs, n - 1)
                                    \o <<"Source", " ", ToString(n)>>
                                    \o (IF last = <<>> THEN <<>> ELSE <<"\n">> \o last)

C5_Witness ==
    /\ SearchReturned(1)
    /\ ext[1].docs = <<Document(<<" ", "a">>), Document(<<"a", " ">>)>>
    /\ response[1].message =
          <<"Source", " ", "1", "\n", " ", "a", "\n", "Source", " ", "2", "\n", "a">>

\* C6: with the credential unset or empty, every /answer request with a
\* message gets the generic failure string with status 200, and no language
\* model object is built or called for it.
C6_NoCredentialNoModel ==
    \A r \in Reqs :
        (environ \in {NoKey, ""} /\ request[r].path = "/answer" /\ request[r].hasMessage) =>
            /\ ~llm[r]
            /\ calls[r].llm = <<>>
            /\ Done(r)
            /\ response[r] = jsonify(ProcessingErrorMsg)

C6_Witness ==
    /\ environ = ""
    /\ \E r \in Reqs : Done(r) /\ request[r].path = "/answer" /\ request[r].hasMessage

\* C7: when the retrieval chain returns, /kbanswer has called it exactly once,
\* with the request's query, made no other external call, and responds with
\* the chain's result text unchanged.
C7_OneCallResultUnchanged ==
    \A r \in Reqs :
        (Done(r) /\ request[r].path = "/kbanswer" /\ ext[r].outcome = "returned") =>
            /\ calls[r].qa = <<[query |-> request[r].message]>>
            /\ calls[r].llm = <<>>
            /\ response[r] = jsonify(ext[r].result)

C7_Witness ==
    \E r \in Reqs :
        /\ Done(r) /\ request[r].path = "/kbanswer"
        /\ request[r].message = "What is the refund policy?"
        /\ response[r] = jsonify(<<"Refunds are processed within 14 days.">>)

AnswerIgnoresHandle ==
    \A r \in Reqs :
        (Done(r) /\ request[r].path = "/answer" /\ request[r].hasMessage) =>
            /\ calls[r].qa = <<>>
            /\ response[r] =
                  IF ext[r].outcome = "returned" THEN jsonify(ext[r].result)
                  ELSE jsonify(ProcessingErrorMsg)
            /\ (ext[r].outcome = "none") = (environ \in {NoKey, ""})

\* C9: the handle changes only in the start-up step; no step of a request
\* changes it, so a handle that is None stays None; and the outcome of /answer
\* does not depend on the handle.
C9_HandleSetOnceAtStartup ==
    /\ [][(qa' # qa) => (phase = "boot" /\ phase' = "serving")]_vars
    /\ [][(phase = "serving") => (phase' = "serving" /\ qa' = qa)]_vars
    /\ []AnswerIgnoresHandle

C9_Witness ==
    /\ qa = None
    /\ \E r1, r2 \in Reqs :
        /\ Done(r1) /\ request[r1].path = "/answer" /\ ext[r1].outcome = "raised"
        /\ Done(r2) /\ request[r2].path = "/kbanswer"
        /\ response[r2] = jsonify(UnavailableMsg)

====
